---- MODULE Spec2Model ----
(***************************************************************************)
(* Kaleidoscope-Heatmap: the per-key press counters (heatmap_, highest_),  *)
(* their decay (shiftStats), the event and cycle hooks, and the rate       *)
(* limited render pass (update) with the gradient mapper (computeColor).   *)
(* Source: src/src/Kaleidoscope/Heatmap.cpp                                *)
(***************************************************************************)
EXTENDS Integers, Sequences, FiniteSets, TLC

(***************************************************************************)
(* Bounds of the model.                                                    *)
(***************************************************************************)
\* the key matrix of the build (ROWS x COLS come from the hardware header)
ROWS == 3
COLS == 4
\* number of handler calls / clock advances explored from an initial state
MaxSteps == 3

(***************************************************************************)
(* Program constants.                                                      *)
(***************************************************************************)
INT16_MAX == 32767
UINT16_MOD == 65536
\* bits of key_state (Kaleidoscope keyswitch state)
WAS_PRESSED == 1
IS_PRESSED == 2
INJECTED == 128

Cells == (0 .. ROWS - 1) \X (0 .. COLS - 1)

Pow2(n) == 2 ^ n

MaxOf(a, b) == IF a >= b THEN a ELSE b

\* bit test: x & bit, for bit a power of two
HasBit(x, bit) == (x \div bit) % 2 = 1

(***************************************************************************)
(* 32-bit clock values (millis(), next_heatmap_comp_time_) as a pair       *)
(* <<hi, lo>> of 16-bit halves: the value is hi * 65536 + lo.              *)
(***************************************************************************)
U32(hi, lo) == <<hi, lo>>
U32Zero == <<0, 0>>

\* a + d modulo 2^32, for 0 <= d < 65536
U32Add(a, d) ==
  LET lo == a[2] + d
      carry == lo \div UINT16_MOD
  IN  <<(a[1] + carry) % UINT16_MOD, lo % UINT16_MOD>>

\* a < b on unsigned 32-bit values
U32Less(a, b) == \/ a[1] < b[1]
                 \/ a[1] = b[1] /\ a[2] < b[2]

VARIABLES
  heatmap_,                 \* uint16_t heatmap_[ROWS][COLS]
  highest_,                 \* uint16_t highest_
  next_heatmap_comp_time_,  \* uint32_t, 0 = never scheduled
  heat_colors,              \* the palette: sequence of cRGB [b, g, r]
  heat_colors_length,       \* uint8_t
  update_delay,             \* uint16_t
  int_bits,                 \* width of int of the build (16 on AVR, 32 on a host build)
  now,                      \* millis(), the 32-bit millisecond clock; a call is
                            \* one step, so both reads of update() see one value
  writes,                   \* the setCrgbAt calls of the most recent update() call
  result,                   \* EventHandlerResult returned by the most recent hook
  shifts,                   \* shiftStats calls made by the most recent hook
  scheduled,                \* TRUE once update() has scheduled a render
  called,                   \* the most recent call and its arguments
  computed,                 \* the most recent direct call of computeColor
  cycled,                   \* beforeEachCycle has run since the last counted
                            \* key press (kept by SpecCycled only)
  steps                     \* number of calls / clock advances so far

vars == <<heatmap_, highest_, next_heatmap_comp_time_, heat_colors,
          heat_colors_length, update_delay, int_bits, now, writes, result,
          shifts, scheduled, called, computed, cycled, steps>>

config == <<heat_colors, heat_colors_length, update_delay, int_bits>>
counters == <<heatmap_, highest_>>
render == <<next_heatmap_comp_time_, writes, scheduled>>

(***************************************************************************)
(* Palettes. A cRGB is stored blue, green, red.                            *)
(***************************************************************************)
cRGB(b, g, r) == [b |-> b, g |-> g, r |-> r]

heat_colors_default_ ==
  <<cRGB(0, 0, 0), cRGB(25, 255, 25), cRGB(25, 255, 255), cRGB(25, 25, 255)>>

\* a two stop palette whose channels rise, fall and stay
TwoStops == <<cRGB(255, 0, 40), cRGB(0, 255, 40)>>

\* an n stop palette
Ramp(n) == [i \in 1 .. n |-> cRGB((i * 37) % 256, 255 - ((i * 11) % 256), (2 * i - 2) % 256)]

Palettes == {heat_colors_default_, TwoStops, Ramp(64), Ramp(128)}

UpdateDelays == {1000, 2}
IntWidths == {16, 32}

(***************************************************************************)
(* Inputs.                                                                 *)
(***************************************************************************)
\* the key positions events are delivered for
HotCell == <<0, 0>>
ColdCell == <<ROWS - 1, COLS - 1>>
KeyPositions == {HotCell, ColdCell}

\* key_state values: toggled off, toggled on, held, injected toggled on
KeyStates == {WAS_PRESSED, IS_PRESSED, IS_PRESSED + WAS_PRESSED,
              INJECTED + IS_PRESSED}

\* what the clock advances by between two calls
ClockSteps == {1, 1000}

\* counts keys can have been pressed to before the first step of the model
HotSeeds == {0, 1, 3, 1024, 1025, 2048, 2049, 32765, 32766}
ColdSeeds == {0, 1}
ClockSeeds == {U32Zero, U32(65535, 65534)}

\* a call of a hook, of update() or an advance of the clock, with its arguments
Call(op, row, col, key_state) ==
  [op |-> op, row |-> row, col |-> col, key_state |-> key_state]

\* no direct call of computeColor yet
NotComputed ==
  [done |-> FALSE, v |-> [kind |-> "nan", neg |-> FALSE, m |-> 0, e |-> 0],
   color |-> [b |-> 0, g |-> 0, r |-> 0], reads |-> {}]

(***************************************************************************)
(* The initial states. heatmap_ is zero and highest_ is 1 at startup       *)
(* (lines 25-29); pressing HotCell hot times and ColdCell cold times with  *)
(* no cycle hook in between leads to the other initial states, and the     *)
(* clock has run for any time before the first call of update().           *)
(***************************************************************************)
Init ==
  /\ \E hot \in HotSeeds, cold \in ColdSeeds \cup HotSeeds :
       /\ cold <= hot
       /\ cold \in ColdSeeds \/ cold = hot
       /\ heatmap_ = [cell \in Cells |->
                        IF cell = HotCell THEN hot
                        ELSE IF cell = ColdCell THEN cold ELSE 0]
       /\ highest_ = MaxOf(1, hot)
       /\ now \in ClockSeeds
       /\ update_delay \in UpdateDelays
       /\ hot = 0 \/ (now = U32Zero /\ update_delay = 1000)
  /\ next_heatmap_comp_time_ = U32Zero
  /\ heat_colors \in Palettes
  /\ heat_colors_length = Len(heat_colors)
  /\ int_bits \in IntWidths
  \* below 128 stops the threshold of line 154 is the same for either width
  /\ int_bits = 16 \/ heat_colors_length >= 128
  /\ writes = <<>>
  /\ result = "NONE"
  /\ shifts = 0
  /\ scheduled = FALSE
  /\ called = Call("startup", 0, 0, 0)
  /\ computed = NotComputed
  /\ cycled = TRUE
  /\ steps = 0

(***************************************************************************)
(* Heatmap::shiftStats (lines 98-112): every counter and highest_ >> 1.    *)
(***************************************************************************)
\* shiftStats rounding the halves up
shiftStatsRoundingUp(hm, hi) ==
  [heatmap |-> [cell \in Cells |-> (hm[cell] + 1) \div 2],
   highest |-> (hi + 1) \div 2]

\* shiftStats without line 111
shiftStatsKeepsHighest(hm, hi) ==
  [heatmap |-> [cell \in Cells |-> hm[cell] \div 2],
   highest |-> hi]

\* shiftStats shifting by two bits
shiftStatsByTwo(hm, hi) ==
  [heatmap |-> [cell \in Cells |-> hm[cell] \div 4],
   highest |-> hi \div 4]

\* shiftStats shifting highest_ alone by two bits
shiftStatsHighestTwice(hm, hi) ==
  [heatmap |-> [cell \in Cells |-> hm[cell] \div 2],
   highest |-> hi \div 4]

shiftStats(hm, hi) ==
  [heatmap |-> [cell \in Cells |-> hm[cell] \div 2],
   highest |-> hi \div 2]

\* keyToggledOn(key_state): pressed now and not pressed before
keyToggledOn(key_state) ==
  HasBit(key_state, IS_PRESSED) /\ ~HasBit(key_state, WAS_PRESSED)

\* only the first early return
SkippedInjectedOnly(key_state) == HasBit(key_state, INJECTED)

\* the two early returns of lines 119-124
Skipped(key_state) == HasBit(key_state, INJECTED) \/ ~keyToggledOn(key_state)

\* highest_ follows every increment
ExceedsHighestAlways(hi, count) == TRUE

\* the test of line 130
ExceedsHighest(hi, count) == hi < count

\* the test against the unsigned maximum
NearOverflowUnsigned(hi) == hi = UINT16_MOD - 1

\* the near overflow test of line 137
NearOverflow(hi) == hi = INT16_MAX

(***************************************************************************)
(* Heatmap::onKeyswitchEvent (lines 114-142).                              *)
(***************************************************************************)
onKeyswitchEventHandler(row, col, key_state) ==
  /\ called' = Call("onKeyswitchEvent", row, col, key_state)
  /\ result' = "OK"
  /\ IF Skipped(key_state)
       THEN /\ shifts' = 0
            /\ UNCHANGED counters
       ELSE LET cell == <<row, col>>
                count == (heatmap_[cell] + 1) % UINT16_MOD
                hm == [heatmap_ EXCEPT ![cell] = count]
            IN  IF ExceedsHighest(highest_, count)
                  THEN IF NearOverflow(count)
                         THEN /\ heatmap_' = shiftStats(hm, count).heatmap
                              /\ highest_' = shiftStats(hm, count).highest
                              /\ shifts' = 1
                         ELSE /\ heatmap_' = hm
                              /\ highest_' = count
                              /\ shifts' = 0
                  ELSE /\ heatmap_' = hm
                       /\ highest_' = highest_
                       /\ shifts' = 0
  /\ UNCHANGED <<config, render, now, computed>>

\* a key event, as one of at most MaxSteps steps
onKeyswitchEvent(row, col, key_state) ==
  /\ steps < MaxSteps
  /\ steps' = steps + 1
  /\ onKeyswitchEventHandler(row, col, key_state)
  /\ UNCHANGED cycled

\* the threshold shifted by ten bits
DecayThresholdShiftedByTen(len, bits) ==
  IF bits = 16 THEN (len * 1024) % UINT16_MOD ELSE len * 1024

\* the threshold of line 154: static_cast<uint16_t>(heat_colors_length) << 9,
\* computed in unsigned int (16 bits) or in int (32 bits)
DecayThreshold(len, bits) ==
  IF bits = 16 THEN (len * 512) % UINT16_MOD ELSE len * 512

(***************************************************************************)
(* Heatmap::beforeEachCycle (lines 144-158).                               *)
(***************************************************************************)
\* the test of line 154
ShouldShift(hi, len, bits) == hi > DecayThreshold(len, bits)

beforeEachCycleHandler ==
  /\ called' = Call("beforeEachCycle", 0, 0, 0)
  /\ result' = "OK"
  /\ IF ShouldShift(highest_, heat_colors_length, int_bits)
       THEN /\ heatmap_' = shiftStats(heatmap_, highest_).heatmap
            /\ highest_' = shiftStats(heatmap_, highest_).highest
            /\ shifts' = 1
       ELSE /\ shifts' = 0
            /\ UNCHANGED counters
  /\ UNCHANGED <<config, render, now, computed>>

\* a cycle hook, as one of at most MaxSteps steps
beforeEachCycle ==
  /\ steps < MaxSteps
  /\ steps' = steps + 1
  /\ beforeEachCycleHandler
  /\ UNCHANGED cycled

\* the millisecond clock advances between two calls
ClockAdvance(d) ==
  /\ now' = U32Add(now, d)
  /\ called' = Call("millis", 0, 0, 0)
  /\ UNCHANGED <<config, counters, render, result, shifts, computed>>

\* an advance of the clock, as one of at most MaxSteps steps
AdvanceClock(d) ==
  /\ steps < MaxSteps
  /\ steps' = steps + 1
  /\ ClockAdvance(d)
  /\ UNCHANGED cycled

(***************************************************************************)
(* float: IEEE binary32, round to nearest even. A finite value >= 0 is     *)
(* [kind |-> "num", m, e] and stands for m * 2^e with 0 <= m <= 2^24; the  *)
(* quotients by zero are "inf" and "nan". Every intermediate integer stays *)
(* below 2^31.                                                             *)
(***************************************************************************)
Float(m, e) == [kind |-> "num", neg |-> FALSE, m |-> m, e |-> e]
FloatNaN == [kind |-> "nan", neg |-> FALSE, m |-> 0, e |-> 0]
FloatInf == [kind |-> "inf", neg |-> FALSE, m |-> 0, e |-> 0]
FloatNeg(f) == [f EXCEPT !.neg = TRUE]

\* the quotient bits of rem / den after acc, until acc has 24 bits
RECURSIVE DivAcc(_, _, _, _)
DivAcc(rem, den, acc, t) ==
  IF acc >= Pow2(23)
    THEN [acc |-> acc, rem |-> rem, t |-> t]
    ELSE IF 2 * rem >= den
           THEN DivAcc(2 * rem - den, den, 2 * acc + 1, t + 1)
           ELSE DivAcc(2 * rem, den, 2 * acc, t + 1)

\* static_cast<float>(num) / den for 16-bit num and den (line 177)
FloatDiv(num, den) ==
  IF den = 0 THEN (IF num = 0 THEN FloatNaN ELSE FloatInf)
  ELSE IF num = 0 THEN Float(0, 0)
  ELSE LET d == DivAcc(num % den, den, num \div den, 0)
           up == \/ 2 * d.rem > den
                 \/ 2 * d.rem = den /\ d.acc % 2 = 1
       IN  Float(IF up THEN d.acc + 1 ELSE d.acc, 0 - d.t)

\* the number of low bits x has beyond 24
RECURSIVE ExcessBits(_)
ExcessBits(x) == IF x < Pow2(24) THEN 0 ELSE 1 + ExcessBits(x \div 2)

\* x / 2^d rounded to the nearest integer, ties to even
RoundShift(x, d) ==
  IF d = 0 THEN x
  ELSE LET q == x \div Pow2(d)
           r == x % Pow2(d)
           h == Pow2(d - 1)
       IN  IF r > h \/ (r = h /\ q % 2 = 1) THEN q + 1 ELSE q

\* f * k rounded to float, for an integer 0 <= k <= 255
FloatMulInt(f, k) ==
  LET mh == f.m \div 256
      ml == f.m % 256
      q8 == mh * k + (ml * k) \div 256
      r8 == (ml * k) % 256
  IN  IF q8 >= Pow2(23)
        THEN Float(IF r8 > 128 \/ (r8 = 128 /\ q8 % 2 = 1) THEN q8 + 1 ELSE q8,
                   f.e + 8)
        ELSE LET x == q8 * 256 + r8
                 d == ExcessBits(x)
             IN  Float(RoundShift(x, d), f.e + d)

\* static_cast<int>(f): the integer part
FloatTrunc(f) ==
  IF f.e >= 0 THEN f.m * Pow2(f.e)
  ELSE IF 0 - f.e > 30 THEN 0
  ELSE f.m \div Pow2(0 - f.e)

\* f - static_cast<float>(static_cast<int>(f)): exact
FloatFrac(f) ==
  IF f.e >= 0 THEN Float(0, 0)
  ELSE IF 0 - f.e > 30 THEN f
  ELSE Float(f.m % Pow2(0 - f.e), f.e)

\* the exponent of the floats just below the integer n >= 1
RECURSIVE ExpBelow(_)
ExpBelow(n) == IF n <= 1 THEN 0 - 1 ELSE 1 + ExpBelow((n + 1) \div 2)

\* whether a sum that lies gap * 2^e below the integer n rounds up to n
RoundsUpTo(n, gap, e) ==
  LET t == ExpBelow(n) - 24 - e
  IN  IF t < 0 THEN FALSE
      ELSE IF t > 30 THEN TRUE
      ELSE gap <= Pow2(t)

\* static_cast<uint8_t>(sgn * p + c1) for a float p >= 0 and an integer c1
TruncSum(c1, sgn, p) ==
  LET pi == FloatTrunc(p)
      fr == FloatFrac(p)
  IN  IF fr.m = 0 THEN (c1 + sgn * pi) % 256
      ELSE IF sgn > 0
        THEN LET n == c1 + pi
                 gap == IF 0 - fr.e > 30 THEN Pow2(30) ELSE Pow2(0 - fr.e) - fr.m
             IN  IF 0 - fr.e <= 30 /\ RoundsUpTo(n + 1, gap, fr.e)
                   THEN (n + 1) % 256 ELSE n % 256
        ELSE LET n == c1 - pi - 1
             IN  IF n < 0 THEN 0
                 ELSE IF RoundsUpTo(n + 1, fr.m, fr.e) THEN (n + 1) % 256
                 ELSE n % 256

\* the difference c2 - c1 taken as a uint8_t
ChannelUnsignedDifference(c1, c2, fb) ==
  TruncSum(c1, 1, FloatMulInt(fb, (c2 - c1) % 256))

\* one channel of lines 91-93: (c2 - c1) * fb + c1 as uint8_t
Channel(c1, c2, fb) ==
  IF c2 >= c1 THEN TruncSum(c1, 1, FloatMulInt(fb, c2 - c1))
  ELSE TruncSum(c1, 0 - 1, FloatMulInt(fb, c1 - c2))

(***************************************************************************)
(* Heatmap::computeColor (lines 40-96).                                    *)
(***************************************************************************)
\* what a read outside the palette, or a conversion of a NaN, may give
UndefinedColors == {cRGB(0, 0, 0), cRGB(255, 255, 255), cRGB(7, 77, 177)}

\* heat_colors indexed from one
StopFromOne(i, junk) ==
  IF 1 <= i /\ i <= Len(heat_colors) THEN heat_colors[i] ELSE junk

\* heat_colors[i], zero based; junk beyond the end of the array
Stop(i, junk) == IF i + 1 <= Len(heat_colors) THEN heat_colors[i + 1] ELSE junk

\* v <= 0 for zero only
ClampsLowZeroOnly(v) == v.kind = "num" /\ v.m = 0

\* v <= 0 (line 75) and v >= 1 (line 78)
ClampsLow(v) == \/ v.kind = "num" /\ (v.m = 0 \/ v.neg)
                \/ v.kind = "inf" /\ v.neg
ClampsHigh(v) == \/ v.kind = "inf" /\ ~v.neg
                 \/ v.kind = "num" /\ ~v.neg /\ FloatTrunc(v) >= 1

\* val of line 83
ScaledValue(v) == FloatMulInt(v, heat_colors_length - 1)

\* idx1, idx2 (uint8_t) and fb as lines 75-89 leave them
Idx1(v) ==
  IF ClampsLow(v) THEN 0
  ELSE IF ClampsHigh(v) THEN (heat_colors_length - 1) % 256
  ELSE FloatTrunc(ScaledValue(v)) % 256

\* idx2 without the step to the next stop
Idx2SameAsIdx1(v) == Idx1(v)

Idx2(v) ==
  IF ClampsLow(v) THEN 0
  ELSE IF ClampsHigh(v) THEN (heat_colors_length - 1) % 256
  ELSE (Idx1(v) + 1) % 256

Fb(v) ==
  IF ClampsLow(v) \/ ClampsHigh(v) THEN Float(0, 0)
  ELSE FloatFrac(ScaledValue(v))

computeColor(v, junk) ==
  IF v.kind = "nan" THEN junk
  ELSE LET s1 == Stop(Idx1(v), junk)
           s2 == Stop(Idx2(v), junk)
           fb == Fb(v)
       IN  cRGB(Channel(s1.b, s2.b, fb),
                Channel(s1.g, s2.g, fb),
                Channel(s1.r, s2.r, fb))

(***************************************************************************)
(* Heatmap::update (lines 160-187).                                        *)
(***************************************************************************)
\* setCrgbAt with row and column exchanged
setCrgbAtSwapped(r, c, color) == [row |-> c, col |-> r, color |-> color]

\* one setCrgbAt call of line 184
setCrgbAt(r, c, color) == [row |-> r, col |-> c, color |-> color]

\* the inner loop of lines 174-185, from column c on
RECURSIVE ColumnLoop(_, _, _)
ColumnLoop(r, c, junk) ==
  IF c < COLS
    THEN <<setCrgbAt(r, c, computeColor(FloatDiv(heatmap_[<<r, c>>], highest_), junk))>>
         \o ColumnLoop(r, c + 1, junk)
    ELSE <<>>

\* the outer loop of lines 173-186, from row r on
RECURSIVE RowLoop(_, _)
RowLoop(r, junk) ==
  IF r < ROWS THEN ColumnLoop(r, 0, junk) \o RowLoop(r + 1, junk) ELSE <<>>

\* the test of line 164 with <= for <
TooEarlyInclusive ==
  /\ next_heatmap_comp_time_ # U32Zero
  /\ U32Less(now, next_heatmap_comp_time_) \/ now = next_heatmap_comp_time_

\* the test of line 164 with the comparison reversed
TooEarlyReversed ==
  next_heatmap_comp_time_ # U32Zero /\ U32Less(next_heatmap_comp_time_, now)

\* the test of line 164: not yet time for the next computation
TooEarly == next_heatmap_comp_time_ # U32Zero /\ U32Less(now, next_heatmap_comp_time_)

\* the next computation time of line 170
NextCompTime == U32Add(now, update_delay)

updateHandler ==
  /\ called' = Call("update", 0, 0, 0)
  /\ \E junk \in UndefinedColors :
       IF TooEarly
         THEN /\ writes' = <<>>
              /\ UNCHANGED <<next_heatmap_comp_time_, scheduled>>
         ELSE /\ next_heatmap_comp_time_' = NextCompTime
              /\ scheduled' = TRUE
              /\ writes' = RowLoop(0, junk)
  /\ UNCHANGED <<config, counters, now, result, shifts, computed>>

\* a call of update(), as one of at most MaxSteps steps
update ==
  /\ steps < MaxSteps
  /\ steps' = steps + 1
  /\ updateHandler
  /\ UNCHANGED cycled

Next ==
  \/ \E pos \in KeyPositions, key_state \in KeyStates :
       onKeyswitchEvent(pos[1], pos[2], key_state)
  \/ beforeEachCycle
  \/ update
  \/ \E d \in ClockSteps : AdvanceClock(d)

Spec == Init /\ [][Next]_vars

(***************************************************************************)
(* The plugin from power-up: the heat map all zero, highest_ = 1, nothing  *)
(* rendered yet. Three presses of one key, each followed by a call that    *)
(* presses nothing, then the calls that render.                            *)
(***************************************************************************)
ScenarioSteps == 8
ScenarioPresses == 3
ScenarioCell == <<2, 3>>
ScenarioPalettes == {heat_colors_default_, TwoStops, Ramp(64)}

ScenarioInit ==
  /\ heatmap_ = [p \in Cells |-> 0]
  /\ highest_ = 1
  /\ next_heatmap_comp_time_ = U32Zero
  /\ heat_colors \in ScenarioPalettes
  /\ heat_colors_length = Len(heat_colors)
  /\ update_delay \in UpdateDelays
  /\ int_bits = 16
  /\ now \in ClockSeeds
  /\ writes = <<>>
  /\ result = "NONE"
  /\ shifts = 0
  /\ scheduled = FALSE
  /\ called = Call("startup", 0, 0, 0)
  /\ computed = NotComputed
  /\ cycled = TRUE
  /\ steps = 0

\* the calls of the main loop that count no press
ScenarioIdle ==
  \/ \E p \in KeyPositions \cup {ScenarioCell} :
       \E key_state \in {WAS_PRESSED, IS_PRESSED + WAS_PRESSED, INJECTED + IS_PRESSED} :
         onKeyswitchEventHandler(p[1], p[2], key_state)
  \/ beforeEachCycleHandler
  \/ updateHandler
  \/ \E d \in ClockSteps : ClockAdvance(d)

\* the key at ScenarioCell toggles on
ScenarioPress ==
  /\ steps < 2 * ScenarioPresses
  /\ steps % 2 = 0
  /\ steps' = steps + 1
  /\ onKeyswitchEventHandler(ScenarioCell[1], ScenarioCell[2], IS_PRESSED)
  /\ UNCHANGED cycled

\* what the loop calls between two presses
ScenarioBetween ==
  /\ steps < 2 * ScenarioPresses
  /\ steps % 2 = 1
  /\ steps' = steps + 1
  /\ ScenarioIdle
  /\ UNCHANGED cycled

\* what the loop calls after the last press
ScenarioAfter ==
  /\ steps >= 2 * ScenarioPresses
  /\ steps < ScenarioSteps
  /\ steps' = steps + 1
  /\ ScenarioIdle
  /\ UNCHANGED cycled

ScenarioNext ==
  \/ ScenarioPress
  \/ ScenarioBetween
  \/ ScenarioAfter

SpecScenario == ScenarioInit /\ [][ScenarioNext]_vars

(***************************************************************************)
(* computeColor on its own: a palette is configured, then the function is  *)
(* called with values of v and the call is recorded in computed.           *)
(***************************************************************************)
ColorRange == 6

\* the example of lines 43-70: the red components are 0, 25, 25, 255
CommentExample == <<cRGB(0, 0, 0), cRGB(0, 0, 25), cRGB(0, 0, 25), cRGB(0, 0, 255)>>
OneStop == <<cRGB(25, 255, 25)>>
SmallSteps == <<cRGB(1, 4, 0), cRGB(4, 1, 255), cRGB(0, 7, 254)>>
ColorPalettes ==
  {heat_colors_default_, TwoStops, CommentExample, OneStop, SmallSteps, Ramp(64)}

\* quotients n / d as update() computes them, and floats next to 1, 1/3 and 0
ColorRatios == {FloatDiv(n, d) : n \in 0..ColorRange, d \in 1..ColorRange}
ColorInputs ==
  ColorRatios \cup {FloatNeg(f) : f \in ColorRatios}
    \cup {FloatInf, FloatNeg(FloatInf), Float(Pow2(24) - 1, 0 - 24),
          Float(11184810, 0 - 25), Float(Pow2(23), 0 - 40)}

ColorInit ==
  /\ heatmap_ = [p \in Cells |-> 0]
  /\ highest_ = 1
  /\ next_heatmap_comp_time_ = U32Zero
  /\ heat_colors \in ColorPalettes
  /\ heat_colors_length = Len(heat_colors)
  /\ update_delay = 1000
  /\ int_bits = 16
  /\ now = U32Zero
  /\ writes = <<>>
  /\ result = "NONE"
  /\ shifts = 0
  /\ scheduled = FALSE
  /\ called = Call("startup", 0, 0, 0)
  /\ computed = NotComputed
  /\ cycled = TRUE
  /\ steps = 0

\* one call computeColor(v); lines 91-93 read heat_colors[idx1] and [idx2]
computeColorCall(v, junk) ==
  /\ steps < MaxSteps
  /\ steps' = steps + 1
  /\ called' = Call("computeColor", 0, 0, 0)
  /\ computed' = [done |-> TRUE, v |-> v, color |-> computeColor(v, junk),
                  reads |-> {Idx1(v), Idx2(v)}]
  /\ UNCHANGED <<config, counters, render, now, result, shifts, cycled>>

ColorNext == \E v \in ColorInputs : \E junk \in UndefinedColors : computeColorCall(v, junk)

SpecColor == ColorInit /\ [][ColorNext]_vars

(***************************************************************************)
(* The main loop calling beforeEachCycle at least once between any two key *)
(* presses that are counted, with palettes of 2 to 63 stops. cycled tells  *)
(* whether the hook has run since the last counted press.                  *)
(***************************************************************************)
CycledSteps == 4
CycledPalettes == {TwoStops, heat_colors_default_, Ramp(63)}

\* the counts next to the threshold of line 154, and the first ones
CycledSeeds(len) == {0, 1, len * 512 - 1, len * 512, len * 512 + 1}

CycledInit ==
  /\ heat_colors \in CycledPalettes
  /\ heat_colors_length = Len(heat_colors)
  /\ int_bits = 16
  /\ \E hot \in CycledSeeds(Len(heat_colors)) : \E cold \in ColdSeeds :
       /\ heatmap_ = [p \in Cells |-> IF p = HotCell THEN hot
                                      ELSE IF p = ColdCell THEN cold ELSE 0]
       /\ highest_ = MaxOf(1, hot)
       /\ cycled \in (IF hot > Len(heat_colors) * 512 THEN {FALSE} ELSE BOOLEAN)
  /\ next_heatmap_comp_time_ = U32Zero
  /\ update_delay = 1000
  /\ now = U32Zero
  /\ writes = <<>>
  /\ result = "NONE"
  /\ shifts = 0
  /\ scheduled = FALSE
  /\ called = Call("startup", 0, 0, 0)
  /\ computed = NotComputed
  /\ steps = 0

\* a key event; one that is counted comes only after a cycle hook
CycledKeyswitchEvent(row, col, key_state) ==
  /\ steps < CycledSteps
  /\ Skipped(key_state) \/ cycled
  /\ steps' = steps + 1
  /\ onKeyswitchEventHandler(row, col, key_state)
  /\ cycled' = (cycled /\ Skipped(key_state))

CycledBeforeEachCycle ==
  /\ steps < CycledSteps
  /\ steps' = steps + 1
  /\ beforeEachCycleHandler
  /\ cycled' = TRUE

CycledUpdate ==
  /\ steps < CycledSteps
  /\ steps' = steps + 1
  /\ updateHandler
  /\ UNCHANGED cycled

CycledAdvanceClock(d) ==
  /\ steps < CycledSteps
  /\ steps' = steps + 1
  /\ ClockAdvance(d)
  /\ UNCHANGED cycled

CycledNext ==
  \/ \E p \in KeyPositions : \E key_state \in KeyStates :
       CycledKeyswitchEvent(p[1], p[2], key_state)
  \/ CycledBeforeEachCycle
  \/ CycledUpdate
  \/ \E d \in ClockSteps : CycledAdvanceClock(d)

SpecCycled == CycledInit /\ [][CycledNext]_vars

(***************************************************************************)
(* The claims.                                                             *)
(***************************************************************************)
KeyEvent == called'.op = "onKeyswitchEvent"
CycleHook == called'.op = "beforeEachCycle"
UpdateCall == called'.op = "update"
EventCell == <<called'.row, called'.col>>

\* a fresh transition into the pressed state of a physical key
FreshPress(key_state) == key_state % 4 = IS_PRESSED /\ key_state < INJECTED

\* x is the half of y, rounded down
HalfOf(x, y) == 2 * x <= y /\ y <= 2 * x + 1

\* C1: with a palette of at least two stops, in every reachable state every
\* counter is at most highest_ and highest_ is at least 1.
C1_CellsAtMostHighestAtLeastOne ==
  heat_colors_length >= 2 =>
    /\ \A cell \in Cells : heatmap_[cell] <= highest_
    /\ highest_ >= 1

\* C2: every counter stays below the near overflow threshold INT16_MAX, a
\* fresh press that brings a counter to INT16_MAX decays at once, and no
\* counter ever goes from the largest 16-bit value back to 0.
C2_DecayBeforeWrap ==
  [][/\ \A cell \in Cells :
          /\ heatmap_[cell] < INT16_MAX
          /\ heatmap_'[cell] < INT16_MAX
          /\ ~(heatmap_[cell] = UINT16_MOD - 1 /\ heatmap_'[cell] = 0)
     /\ (KeyEvent /\ FreshPress(called'.key_state)
           /\ heatmap_[EventCell] = INT16_MAX - 1)
          => /\ shifts' = 1
             /\ HalfOf(heatmap_'[EventCell], INT16_MAX)
             /\ HalfOf(highest_', INT16_MAX)]_vars

\* a fresh press has brought highest_ to INT16_MAX and shiftStats has run
C2_Witness ==
  /\ called.op = "onKeyswitchEvent"
  /\ shifts = 1
  /\ highest_ = 16383
  /\ heatmap_[HotCell] = 16383

\* C3: a fresh press that does not bring highest_ to the near overflow
\* threshold adds 1 to its cell, sets highest_ to the new count iff that
\* exceeds the old highest_, and changes no other cell and nothing of the
\* render schedule.
C3_IncrementOneCell ==
  [][(KeyEvent /\ FreshPress(called'.key_state)
        /\ ~(heatmap_[EventCell] + 1 > highest_
               /\ heatmap_[EventCell] + 1 = INT16_MAX))
       => /\ heatmap_'[EventCell] = heatmap_[EventCell] + 1
          /\ \A cell \in Cells \ {EventCell} : heatmap_'[cell] = heatmap_[cell]
          /\ highest_' = MaxOf(highest_, heatmap_[EventCell] + 1)
          /\ (highest_' # highest_ <=> heatmap_[EventCell] + 1 > highest_)
          /\ UNCHANGED <<next_heatmap_comp_time_, update_delay, scheduled, writes>>]_vars

\* a press of a colder key: its cell counted, highest_ kept
C3_Witness ==
  /\ called = Call("onKeyswitchEvent", ROWS - 1, COLS - 1, IS_PRESSED)
  /\ heatmap_[ColdCell] = 2
  /\ highest_ = 3
  /\ shifts = 0

\* C4: an injected event, or one that is not a fresh press, changes no
\* counter and not highest_; a fresh press counts exactly once; and
\* onKeyswitchEvent returns OK in every case.
C4_EventFilter ==
  [][KeyEvent =>
       /\ result' = "OK"
       /\ ~FreshPress(called'.key_state) => UNCHANGED <<heatmap_, highest_>>
       /\ (FreshPress(called'.key_state) /\ shifts' = 0)
            => heatmap_'[EventCell] = heatmap_[EventCell] + 1]_vars

\* an injected press has been delivered to a key and was not counted
C4_Witness ==
  /\ called = Call("onKeyswitchEvent", 0, 0, INJECTED + IS_PRESSED)
  /\ result = "OK"
  /\ steps = 1
  /\ heatmap_[HotCell] = 3

\* C5: a call of shiftStats leaves every counter at the half, rounded down,
\* of what it was at the call, and highest_ at the half of what it was, and
\* changes nothing of the render schedule or the configuration.
C5_DecayHalves ==
  [][/\ (CycleHook /\ shifts' = 1)
          => /\ \A cell \in Cells : HalfOf(heatmap_'[cell], heatmap_[cell])
             /\ HalfOf(highest_', highest_)
     /\ (KeyEvent /\ shifts' = 1)
          => /\ HalfOf(heatmap_'[EventCell], heatmap_[EventCell] + 1)
             /\ \A cell \in Cells \ {EventCell} :
                  HalfOf(heatmap_'[cell], heatmap_[cell])
             /\ HalfOf(highest_', heatmap_[EventCell] + 1)
     /\ ((CycleHook \/ KeyEvent) /\ shifts' = 1)
          => UNCHANGED <<next_heatmap_comp_time_, scheduled, writes, heat_colors,
                         heat_colors_length, update_delay>>]_vars

\* odd counts have been halved by the cycle hook
C5_Witness ==
  /\ called.op = "beforeEachCycle"
  /\ shifts = 1
  /\ highest_ = 512
  /\ heatmap_[HotCell] = 512
  /\ heatmap_[ColdCell] = 0
  /\ steps = 1

\* C6: a cycle hook calls shiftStats if and only if highest_ is above
\* heat_colors_length * 512, whatever the render schedule.
C6_DecayIffAbovePaletteTimes512 ==
  [][CycleHook => (shifts' = 1 <=> highest_ > heat_colors_length * 512)]_vars

\* C7: after a decay by the cycle hook highest_ is at most
\* heat_colors_length * 256, whatever events and hooks came before.
C7_AfterDecayAtMostPaletteTimes256 ==
  [][(CycleHook /\ shifts' = 1) => highest_' <= heat_colors_length * 256]_vars

\* C7 as amended: after a decay by the cycle hook highest_ is the half of
\* what it was, and at most heat_colors_length * 256 when it was at most
\* heat_colors_length * 512 + 1 at the hook.
C7_AfterDecayHalfOfHighest ==
  [][(CycleHook /\ shifts' = 1)
       => /\ HalfOf(highest_', highest_)
          /\ highest_ <= heat_colors_length * 512 + 1
               => highest_' <= heat_colors_length * 256]_vars

\* the hook has decayed highest_ from one above the threshold
C7_Witness ==
  /\ called.op = "beforeEachCycle"
  /\ shifts = 1
  /\ highest_ = heat_colors_length * 256
  /\ steps = 1

\* C8: update() renders when no render was scheduled yet or the clock has
\* reached next_heatmap_comp_time_, and a render sets
\* next_heatmap_comp_time_ to the clock plus update_delay (a 32-bit sum).
C8_RenderWhenDue ==
  [][UpdateCall =>
       /\ (~scheduled \/ ~U32Less(now, next_heatmap_comp_time_))
            => Len(writes') = ROWS * COLS
       /\ Len(writes') = ROWS * COLS
            => /\ next_heatmap_comp_time_'[2] = (now[2] + update_delay) % UINT16_MOD
               /\ next_heatmap_comp_time_'[1] =
                    (now[1] + (now[2] + update_delay) \div UINT16_MOD) % UINT16_MOD
               /\ scheduled']_vars

\* a second render, at the very time the first one scheduled
C8_Witness ==
  /\ called.op = "update"
  /\ Len(writes) = ROWS * COLS
  /\ now = U32(0, 1000)
  /\ next_heatmap_comp_time_ = U32(0, 2000)

\* C9: update() before the scheduled time writes no LED and keeps
\* next_heatmap_comp_time_; no call of update() changes a counter or highest_.
C9_EarlyUpdateDoesNothing ==
  [][UpdateCall =>
       /\ UNCHANGED <<heatmap_, highest_>>
       /\ (scheduled /\ U32Less(now, next_heatmap_comp_time_))
            => /\ writes' = <<>>
               /\ UNCHANGED <<next_heatmap_comp_time_, scheduled>>]_vars

\* update() has been called one millisecond after a render
C9_Witness ==
  /\ called.op = "update"
  /\ writes = <<>>
  /\ scheduled
  /\ now = U32(0, 1)
  /\ U32Less(now, next_heatmap_comp_time_)

\* C10: a render pass calls setCrgbAt ROWS * COLS times, once per cell in
\* row-major order, with computeColor(cell / highest_) of the counters as
\* they are when the pass starts.
C10_RenderRowMajor ==
  [][(UpdateCall /\ writes' # <<>>) =>
       /\ Len(writes') = ROWS * COLS
       /\ \A i \in 1 .. Len(writes') :
            LET r == (i - 1) \div COLS
                c == (i - 1) % COLS
            IN  /\ writes'[i].row = r
                /\ writes'[i].col = c
                /\ \E junk \in UndefinedColors :
                     writes'[i].color =
                       computeColor(FloatDiv(heatmap_[<<r, c>>], highest_), junk)]_vars

\* a pass has given the hot key, a colder key and an unpressed key their colors
C10_Witness ==
  /\ called.op = "update"
  /\ Len(writes) = ROWS * COLS
  /\ heatmap_[HotCell] = 1025
  /\ heatmap_[ColdCell] = 2
  /\ writes[1].color = heat_colors[heat_colors_length]
  /\ writes[2].color = heat_colors[1]
  /\ writes[ROWS * COLS].color \notin {heat_colors[1], heat_colors[heat_colors_length]}

\* C11: from power-up (every counter 0, highest_ = 1), once the key at row 2,
\* column 3 has toggled on three times, with calls that count nothing in
\* between, its counter is 3, highest_ is 3 and every other counter is 0; each
\* update() that is then due writes the last stop of the palette to that key
\* and the first stop to every other key.
C11_ThreePressesThenRender ==
  [][/\ steps' >= 2 * ScenarioPresses - 1
          => /\ heatmap_'[ScenarioCell] = ScenarioPresses
             /\ highest_' = ScenarioPresses
             /\ \A p \in Cells \ {ScenarioCell} : heatmap_'[p] = 0
     /\ ( /\ steps >= 2 * ScenarioPresses - 1
          /\ UpdateCall
          /\ (~scheduled \/ ~U32Less(now, next_heatmap_comp_time_)) )
          => /\ Len(writes') = ROWS * COLS
             /\ \A i \in 1..Len(writes') :
                  writes'[i].color =
                    IF <<writes'[i].row, writes'[i].col>> = ScenarioCell
                    THEN heat_colors[heat_colors_length]
                    ELSE heat_colors[1]]_vars

\* a render after the three presses, later than the one before it scheduled
C11_Witness ==
  /\ called.op = "update"
  /\ steps = ScenarioSteps
  /\ heatmap_[ScenarioCell] = ScenarioPresses
  /\ heat_colors = heat_colors_default_
  /\ Len(writes) = ROWS * COLS
  /\ writes[2 * COLS + 4].color = cRGB(25, 25, 255)
  /\ writes[1].color = cRGB(0, 0, 0)
  /\ now = U32(0, 1000)
  /\ next_heatmap_comp_time_ = U32(0, 2000)

\* the value of a float compared with 0 and with 1
NotAboveZero(v) == v.kind # "nan" /\ (v.neg \/ (v.kind = "num" /\ v.m = 0))
NotBelowOne(v) ==
  /\ v.kind # "nan"
  /\ ~v.neg
  /\ \/ v.kind = "inf"
     \/ v.e >= 0 /\ v.m >= 1
     \/ v.e < 0 /\ 0 - v.e <= 30 /\ v.m >= Pow2(0 - v.e)

\* C12: with a palette of two or more stops, computeColor(v) is exactly the
\* first stop for v = 0 and every negative v, and exactly the last stop for
\* v = 1 and every v above 1.
C12_ClampToFirstAndLastStop ==
  (computed.done /\ heat_colors_length >= 2)
    => /\ NotAboveZero(computed.v) => computed.color = heat_colors[1]
       /\ NotBelowOne(computed.v) => computed.color = heat_colors[heat_colors_length]

\* computeColor(-1/2) with the default palette
C12_Witness ==
  /\ computed.done
  /\ heat_colors = heat_colors_default_
  /\ computed.v = FloatNeg(FloatDiv(1, 2))
  /\ computed.color = cRGB(0, 0, 0)

\* C13 as stated: with the default palette as stored, computeColor(0.8) reads
\* stops 2 and 3 and returns the red channel 117.
C13_DefaultPaletteRed117 ==
  (computed.done /\ heat_colors = heat_colors_default_
     /\ computed.v = FloatDiv(4, 5))
    => /\ computed.reads = {2, 3}
       /\ computed.color.r = 117

\* C13: computeColor(0.8) reads stops 2 and 3 of a four stop palette; with the
\* red components 0, 25, 25, 255 of the example in the comment the red
\* channel is 117; with the default palette as stored (red components 0, 25,
\* 255, 255) the red channel is 255, the green one 162 and the blue one 25.
C13_CommentExampleRed117 ==
  (computed.done /\ computed.v = FloatDiv(4, 5))
    => /\ heat_colors = CommentExample
            => /\ computed.reads = {2, 3}
               /\ computed.color.r = 117
       /\ heat_colors = heat_colors_default_
            => /\ computed.reads = {2, 3}
               /\ computed.color = cRGB(25, 162, 255)

\* computeColor(0.8) with the palette of the comment
C13_Witness ==
  /\ computed.done
  /\ computed.v = FloatDiv(4, 5)
  /\ heat_colors = CommentExample
  /\ computed.color.r = 117

\* a float strictly between 0 and 1
StrictlyInside(v) == v.kind = "num" /\ ~NotAboveZero(v) /\ ~NotBelowOne(v)

\* x lies between a and b, whichever is larger
Between(x, a, b) == (a <= x /\ x <= b) \/ (b <= x /\ x <= a)

\* C14: for a palette of two or more stops and 0 < v < 1, with
\* pos = v * (length - 1), idx1 = floor(pos), idx2 = idx1 + 1 and
\* f = pos - idx1 (float arithmetic), computeColor reads the stops idx1 and
\* idx2, idx2 is at most length - 1, and each channel is
\* stops[idx1] + f * (stops[idx2] - stops[idx1]) truncated, a value between
\* the two stops' values whether the channel rises or falls.
C14_InterpolatesBetweenAdjacentStops ==
  (computed.done /\ heat_colors_length >= 2 /\ StrictlyInside(computed.v))
    => LET pos == FloatMulInt(computed.v, heat_colors_length - 1)
           i1 == FloatTrunc(pos)
           i2 == i1 + 1
           f == FloatFrac(pos)
       IN  /\ i2 <= heat_colors_length - 1
           /\ computed.reads = {i1, i2}
           /\ LET s1 == heat_colors[i1 + 1]
                  s2 == heat_colors[i2 + 1]
                  c == computed.color
              IN  /\ c.b = Channel(s1.b, s2.b, f) /\ Between(c.b, s1.b, s2.b)
                  /\ c.g = Channel(s1.g, s2.g, f) /\ Between(c.g, s1.g, s2.g)
                  /\ c.r = Channel(s1.r, s2.r, f) /\ Between(c.r, s1.r, s2.r)

\* computeColor(1/3) between two stops whose blue falls from 255 to 0
C14_Witness ==
  /\ computed.done
  /\ heat_colors = TwoStops
  /\ computed.v = FloatDiv(1, 3)
  /\ computed.reads = {0, 1}
  /\ computed.color = cRGB(170, 85, 40)

\* a cycle hook calls shiftStats right after the call before it has
SecondDecay ==
  /\ called.op \in {"beforeEachCycle", "onKeyswitchEvent"}
  /\ shifts = 1
  /\ CycleHook
  /\ shifts' = 1

\* C15 as stated: shiftStats applied a second time leaves the state the first
\* application left.
C15_DecayIdempotent ==
  [][SecondDecay => UNCHANGED <<heatmap_, highest_>>]_vars

\* C15: shiftStats is not idempotent: applied a second time it halves every
\* counter and highest_ again, and highest_, at least 1 whenever shiftStats is
\* called, is lowered by every application.
C15_SecondDecayHalvesAgain ==
  [][/\ SecondDecay
          => /\ \A cell \in Cells : HalfOf(heatmap_'[cell], heatmap_[cell])
             /\ HalfOf(highest_', highest_)
     /\ ((CycleHook \/ KeyEvent) /\ shifts' = 1)
          => highest_' < highest_]_vars

\* two cycle hooks in a row have each halved the counters
C15_Witness ==
  /\ called.op = "beforeEachCycle"
  /\ shifts = 1
  /\ steps = 2
  /\ highest_ = 8191
  /\ heatmap_[HotCell] = 8191

\* the counter of a cell as shiftStats finds it in the step taken
CountAtDecay(cell) ==
  IF KeyEvent /\ cell = EventCell THEN heatmap_[cell] + 1 ELSE heatmap_[cell]

\* C16: shiftStats keeps the order of the counters: a cell that was at most
\* another one before the call is at most that one after it; and after the
\* call every counter is at most highest_.
C16_DecayKeepsOrder ==
  [][((CycleHook \/ KeyEvent) /\ shifts' = 1)
       => /\ \A a \in Cells : \A b \in Cells :
               CountAtDecay(a) <= CountAtDecay(b) => heatmap_'[a] <= heatmap_'[b]
          /\ \A a \in Cells : heatmap_'[a] <= highest_']_vars

\* a decay of two cells that differed: 2049 and 1 have become 1024 and 0
C16_Witness ==
  /\ called.op = "beforeEachCycle"
  /\ shifts = 1
  /\ steps = 1
  /\ heatmap_[HotCell] = 1024
  /\ heatmap_[ColdCell] = 0
  /\ highest_ = 1024

\* C17: with a palette of one stop, computeColor(v) returns that stop for
\* every v and reads no entry of the palette but the one at index 0.
C17_OneStopReadsOnlyIndexZero ==
  (computed.done /\ heat_colors_length = 1)
    => /\ computed.color = heat_colors[1]
       /\ computed.reads \subseteq {0}

\* the largest counter of the heat map
RECURSIVE MaxCount(_)
MaxCount(cells) ==
  IF cells = {} THEN 0
  ELSE LET cell == CHOOSE x \in cells : TRUE
       IN  MaxOf(heatmap_[cell], MaxCount(cells \ {cell}))

\* C18: with a palette of two or more stops, in every reachable state
\* highest_ is the largest counter, or 1 where every counter is 0.
C18_HighestIsTheLargestCounter ==
  heat_colors_length >= 2 => highest_ = MaxOf(1, MaxCount(Cells))

\* C19: where beforeEachCycle runs at least once between any two counted key
\* presses and the palette has 2 to 63 stops, highest_ never exceeds
\* heat_colors_length * 512 + 1 and no key event calls shiftStats.
C19_CycledNeverNearOverflow ==
  /\ highest_ <= heat_colors_length * 512 + 1
  /\ highest_ < INT16_MAX
  /\ ~(called.op = "onKeyswitchEvent" /\ shifts = 1)

\* a press has taken highest_ one above the threshold and the hook after it
\* has halved it, with 63 stops
C19_Witness ==
  /\ called.op = "beforeEachCycle"
  /\ shifts = 1
  /\ steps = 2
  /\ heat_colors_length = 63
  /\ highest_ = 16128
  /\ heatmap_[HotCell] = 16128

\* a - b modulo 2^32
U32Sub(a, b) ==
  LET borrow == IF a[2] < b[2] THEN 1 ELSE 0
  IN  <<(a[1] - b[1] - borrow + UINT16_MOD) % UINT16_MOD,
        (a[2] - b[2] + UINT16_MOD) % UINT16_MOD>>

\* the milliseconds since the last render, which was at
\* next_heatmap_comp_time_ - update_delay
SinceRender == U32Sub(U32Add(now, update_delay), next_heatmap_comp_time_)

\* C20: after a render at time t, update() renders at no time t' with
\* t <= t' < t + update_delay, wherever t lies in the range of the 32-bit
\* clock, also where t + update_delay passes 2^32 - 1 or is 0 modulo 2^32.
C20_NoRenderWithinUpdateDelay ==
  [][( /\ UpdateCall
       /\ scheduled
       /\ update_delay > 0
       /\ SinceRender[1] = 0
       /\ SinceRender[2] < update_delay )
       => writes' = <<>>]_vars

====
